---- MODULE Spec2Model ----
(***************************************************************************)
(* Model of the first script block of src/main.js (lines 1-188): asset     *)
(* loading, the start button / permission flow, the devicemotion handler,  *)
(* the sliding sample window, the throttled asynchronous inference and the *)
(* UI it writes.                                                           *)
(*                                                                         *)
(* The file holds a second script block (lines 191-348), an older copy of  *)
(* the first that runs on the same page with its own state.  Of it the     *)
(* model keeps the loading, the click handler, the permission flow, the    *)
(* devicemotion listeners and the window they fill; its inference is not   *)
(* modelled.  Spec runs the first block while the second is still loading; *)
(* SpecPage runs both.                                                     *)
(* SpecDecide runs the decision for many labels and outputs, SpecScale the *)
(* normalizer for many scale values, and SpecLive the pipeline with every  *)
(* pending classifier call eventually settling.                            *)
(*                                                                         *)
(* Numbers are integers: a probability p is held as 10*p, feature values   *)
(* are integer with division and square root floored.  Strings that the    *)
(* code inspects (labels) are sequences of one-character strings.          *)
(***************************************************************************)
EXTENDS Integers, Sequences, FiniteSets, TLC

\* ------------------------------------------------------------------ bounds
\* Window capacity.  The program's value is 200 (main.js:47); the model runs
\* the same code with a small capacity.
SAMPLING_TARGET == 3
\* Number of devicemotion events delivered in one behaviour.
MaxEvents == 4
\* Date.now() when the page starts, and how far the clock runs after it.
StartTime == 5000
Horizon == 2400
\* Start attempts of the second block (pending or subscribed) in one behaviour.
MaxListeners == 2
\* --------------------------------------------------------- program constants
RateLimitMs == 800
NoticeIntervalMs == 2000

\* Clock advances between two steps (ms).
Deltas == {400, 800}

\* ------------------------------------------------------------------ strings
Alphabet ==
  << <<"a","A">>, <<"b","B">>, <<"c","C">>, <<"d","D">>, <<"e","E">>,
     <<"f","F">>, <<"g","G">>, <<"h","H">>, <<"i","I">>, <<"j","J">>,
     <<"k","K">>, <<"l","L">>, <<"m","M">>, <<"n","N">>, <<"o","O">>,
     <<"p","P">>, <<"q","Q">>, <<"r","R">>, <<"s","S">>, <<"t","T">>,
     <<"u","U">>, <<"v","V">>, <<"w","W">>, <<"x","X">>, <<"y","Y">>,
     <<"z","Z">> >>

Lower(c) ==
  IF \E k \in 1..Len(Alphabet) : Alphabet[k][2] = c
  THEN Alphabet[CHOOSE k \in 1..Len(Alphabet) : Alphabet[k][2] = c][1]
  ELSE c

Upper(c) ==
  IF \E k \in 1..Len(Alphabet) : Alphabet[k][1] = c
  THEN Alphabet[CHOOSE k \in 1..Len(Alphabet) : Alphabet[k][1] = c][2]
  ELSE c

\* String.prototype.toLowerCase
toLowerCase(s) == [i \in 1..Len(s) |-> Lower(s[i])]

\* String.prototype.includes
includes(s, sub) ==
  \E k \in 0..(Len(s) - Len(sub)) : \A j \in 1..Len(sub) : s[k + j] = sub[j]

STR_sit == <<"s","i","t">>
STR_stand == <<"s","t","a","n","d">>
STR_walking == <<"w","a","l","k","i","n","g">>
STR_upstairs == <<"u","p","s","t","a","i","r","s">>
STR_downstairs == <<"d","o","w","n","s","t","a","i","r","s">>
STR_jogging == <<"j","o","g","g","i","n","g">>
STR_running == <<"r","u","n","n","i","n","g">>
STR_unknown == <<"u","n","k","n","o","w","n">>

\* Status strings written to logs.innerText
MSG_loading == "loading model"
MSG_modelLoaded == "model loaded, loading scaler"
MSG_ready == "model ready"
MSG_loadFailed == "asset load failed"
MSG_notReady == "skipping inference: model not loaded"
MSG_predError == "error during inference"
MSG_capturing == "capturing sensor"
MSG_ready2 == "ready, press Start"

VARIABLES
  pc,            \* position of the top-level script: which await it is at
  model,         \* TRUE when tf.loadLayersModel has resolved
  scaler,        \* parsed scaler.json
  labels,        \* parsed labels.json
  btnDisabled,   \* startBtn.disabled
  asking,        \* startMotion is suspended in requestPermission()
  handlers,      \* devicemotion listeners registered
  buffer,        \* the sample window; an element is [s |-> the sample,
                 \* n |-> its arrival number (history)]
  lastPredTime,
  now,           \* Date.now()
  inflight,      \* inferences suspended at `await out.data()`
  nextId,        \* number of inferences started so far
  tensors,       \* live (undisposed) tensors: <<inference id, "input"|"out">>
  logs,          \* logs.innerText
  predLabel,     \* what updateUI last wrote (label, level, confidence)
  events,        \* history: number of devicemotion events delivered
  lastEv,        \* history: the event delivered last
  pushes,        \* history: number of samples that reached buffer.push
  uncaught,      \* history: errors thrown out of an event handler
  starts,        \* history: lastPredTime assignments that began an inference
  notices,       \* history: times the "not ready" notice was written
  emitted,       \* history: what each ended inference wrote to the UI, in order
  lastEnd,       \* history: the inference that ended last, and how
  refused,       \* history: how the last start attempt of the first block
                 \* was refused: "no", "denied" (answer other than 'granted')
                 \* or "error" (requestPermission rejected)
  alerted,       \* history: alert() was called since the last click
  pc2,           \* second block: position of its top-level script
  asking2,       \* second block: startMotion suspended in requestPermission()
  handlers2,     \* second block: devicemotion listeners registered
  buffer2        \* second block: its sample window; an element is
                 \* [s |-> the sample, n |-> the event's number (history)]

vars == <<pc, model, scaler, labels, btnDisabled, asking, handlers, buffer,
          lastPredTime, now, inflight, nextId, tensors, logs, predLabel,
          events, lastEv, pushes, uncaught, starts, notices, emitted,
          lastEnd, refused, alerted, pc2, asking2, handlers2, buffer2>>

permVars == <<refused, alerted>>
block2Vars == <<pc2, asking2, handlers2, buffer2>>

\* ------------------------------------------------------------- asset files
\* `let scaler = null`, `let labels = null` (main.js:13-14)
NullScaler == [isNull |-> TRUE, mean |-> <<>>, scale |-> <<>>]
NullLabels == [isNull |-> TRUE, arr |-> <<>>]

\* 1e-8, in the unit scale values are held in (1e-9)
EPSILON == 10

\* What scaler.json may parse to: a well-formed scaler, and an object that
\* has neither a mean nor a scale array.
ScalerFiles ==
  { [isNull |-> FALSE, mean |-> <<1, 1, 1, 0, 0, 0, 5>>,
     scale |-> [i \in 1..7 |-> 1000000000]],
    [isNull |-> FALSE, mean |-> <<>>, scale |-> <<>>] }

\* Label strings: a word the mapper knows (or not), alone or inside a longer
\* string, in lower case, upper case or capitalised.
LabelCores ==
  { <<>>, STR_sit, STR_stand, STR_walking, STR_upstairs, STR_downstairs,
    STR_jogging, STR_running, STR_unknown, <<"b","a","n","a","n","a">>,
    STR_running \o STR_sit }
Cased(w) ==
  { w, [i \in 1..Len(w) |-> Upper(w[i])],
    [i \in 1..Len(w) |-> IF i = 1 THEN Upper(w[i]) ELSE w[i]] }
LabelUniverse ==
  UNION { Cased(pre \o core \o suf) :
            pre \in {<<>>, <<"x">>}, core \in LabelCores,
            suf \in {<<>>, <<"s">>} }

STR_Walking == <<"W","a","l","k","i","n","g">>
STR_Jogging == <<"J","o","g","g","i","n","g">>
STR_Sitting == <<"S","i","t","t","i","n","g">>

\* What labels.json may parse to: an array of three strings.
LabelFiles ==
  { [isNull |-> FALSE, arr |-> <<first, STR_Jogging, STR_Sitting>>] :
      first \in LabelUniverse }

\* Distributions out.data() may resolve to (probabilities times 10); the
\* empty one is a malformed output.
ProbValues == {1, 5, 9}
Dists ==
  {<<>>} \cup UNION { [1..n -> ProbValues] : n \in 1..3 }

\* The labels file and the distributions the pipeline is run with
RunLabelFiles == { file \in LabelFiles : file.arr[1] = STR_Walking }
RunDists == {<<>>, <<5, 5, 1>>, <<1, 9>>}

\* devicemotion events: with an acceleration object (some fields absent) or
\* with none.
Events ==
  { [accel |-> TRUE, x |-> 3, y |-> 4, z |-> 0, missing |-> {}],
    [accel |-> TRUE, x |-> 0, y |-> 0, z |-> 0, missing |-> {"x", "y", "z"}],
    [accel |-> FALSE, x |-> 0, y |-> 0, z |-> 0, missing |-> {"x", "y", "z"}] }

NoEvent == [accel |-> FALSE, x |-> 0, y |-> 0, z |-> 0, missing |-> {}]

\* ------------------------------------------------------------ pure helpers
RECURSIVE SumSeq(_)
SumSeq(s) == IF s = <<>> THEN 0 ELSE Head(s) + SumSeq(Tail(s))

\* Math.sqrt, floored
Sqrt(n) == CHOOSE r \in 0..n : r * r <= n /\ (r + 1) * (r + 1) > n

\* computeFeatures (main.js:62-87)
computeFeatures(buf) ==
  LET xs == [i \in 1..Len(buf) |-> buf[i].s.x]
      ys == [i \in 1..Len(buf) |-> buf[i].s.y]
      zs == [i \in 1..Len(buf) |-> buf[i].s.z]
      mean(arr) == SumSeq(arr) \div Len(arr)
      std(arr) ==
        LET m == mean(arr)
        IN  Sqrt(SumSeq([i \in 1..Len(arr) |-> (arr[i] - m) * (arr[i] - m)])
                 \div Len(arr))
      rms ==
        SumSeq([i \in 1..Len(buf) |->
                  Sqrt(xs[i] * xs[i] + ys[i] * ys[i] + zs[i] * zs[i])])
          \div Len(buf)
  IN  <<mean(xs), mean(ys), mean(zs), std(xs), std(ys), std(zs), rms>>

\* `arr[i] || dflt`: an absent element or a zero gives the default
OrDefault(arr, i, dflt) ==
  IF i \in 1..Len(arr) /\ arr[i] # 0 THEN arr[i] ELSE dflt

\* standardize (main.js:89-99); a quotient is kept as numerator and divisor
standardize(features) ==
  [i \in 1..Len(features) |->
     [num |-> features[i] - OrDefault(scaler.mean, i, 0),
      den |-> OrDefault(scaler.scale, i, EPSILON)]]

\* the arg-max loop (main.js:129-130); indices are 1-based here
RECURSIVE ArgMaxFrom(_, _, _)
ArgMaxFrom(probs, i, maxIdx) ==
  IF i > Len(probs) THEN maxIdx
  ELSE ArgMaxFrom(probs, i + 1, IF probs[i] > probs[maxIdx] THEN i ELSE maxIdx)

\* ArgMax with >= for >: the last maximum wins
ArgMax_lastWins(probs) ==
  IF probs = <<>> THEN 1
  ELSE CHOOSE i \in 1..Len(probs) :
         /\ \A j \in 1..Len(probs) : probs[j] <= probs[i]
         /\ \A j \in (i + 1)..Len(probs) : probs[j] < probs[i]

ArgMax(probs) == ArgMaxFrom(probs, 2, 1)

\* `labels[maxIdx] || 'unknown'` (main.js:131)
LabelAt(maxIdx) ==
  IF maxIdx \in 1..Len(labels.arr) /\ labels.arr[maxIdx] # <<>>
  THEN labels.arr[maxIdx] ELSE STR_unknown

\* mapToFive without toLowerCase
mapToFive_caseSensitive(lab) ==
  IF lab = <<>> THEN 3
  ELSE IF includes(lab, STR_sit) \/ includes(lab, STR_stand) THEN 1
  ELSE IF lab = STR_walking THEN 3
  ELSE IF lab = STR_upstairs \/ lab = STR_downstairs THEN 3
  ELSE IF lab = STR_jogging \/ lab = STR_running THEN 5
  ELSE 3

\* mapToFive (main.js:134-142)
mapToFive(lab) ==
  IF lab = <<>> THEN 3
  ELSE LET l == toLowerCase(lab)
       IN  IF includes(l, STR_sit) \/ includes(l, STR_stand) THEN 1
           ELSE IF l = STR_walking THEN 3
           ELSE IF l = STR_upstairs \/ l = STR_downstairs THEN 3
           ELSE IF l = STR_jogging \/ l = STR_running THEN 5
           ELSE 3

\* `!model || !scaler || !labels` is false (main.js:104)
AllLoaded == model /\ ~scaler.isNull /\ ~labels.isNull

\* probs[maxIdx]: -1 stands for undefined (shown as NaN%)
Confidence(probs, maxIdx) ==
  IF maxIdx \in 1..Len(probs) THEN probs[maxIdx] ELSE -1

NoEnd ==
  [id |-> 0, outcome |-> "none", probs |-> <<>>, input |-> <<>>, win |-> <<>>,
   endN |-> 0]

\* lastPredTime starting at the time of loading instead of 0
InitialLastPredTime_now == now

\* `let lastPredTime = 0` (main.js:101)
InitialLastPredTime == 0

NoPred == [label |-> <<>>, five |-> 0, confidence |-> 0]

\* -------------------------------------------------------------------- Init
Init ==
  /\ pc = "load_model"
  /\ model = FALSE
  /\ scaler = NullScaler
  /\ labels = NullLabels
  /\ btnDisabled = FALSE
  /\ asking = FALSE
  /\ handlers = 0
  /\ buffer = <<>>
  /\ lastPredTime = 0
  /\ now = StartTime
  /\ inflight = {}
  /\ nextId = 0
  /\ tensors = {}
  /\ logs = MSG_loading
  /\ predLabel = NoPred
  /\ events = 0
  /\ lastEv = NoEvent
  /\ pushes = 0
  /\ uncaught = 0
  /\ starts = <<>>
  /\ notices = <<>>
  /\ emitted = <<>>
  /\ lastEnd = NoEnd
  /\ refused = "no"
  /\ alerted = FALSE
  /\ pc2 = "load_model"
  /\ asking2 = 0
  /\ handlers2 = 0
  /\ buffer2 = <<>>

\* ------------------------------------------------------------ asset loading
\* loadAssets (main.js:29-42) and the top-level code after `await
\* loadAssets()` (main.js:44-48, 101), which runs in the same turn as the
\* end of loadAssets.
ModelLoaded ==
  /\ pc = "load_model"
  /\ model' = TRUE
  /\ logs' = MSG_modelLoaded
  /\ pc' = "load_scaler"
  /\ UNCHANGED <<scaler, labels, btnDisabled, asking, handlers, buffer,
                 lastPredTime, now, inflight, nextId, tensors, predLabel,
                 events, lastEv, pushes, uncaught, starts, notices, emitted,
                 lastEnd>>

ScalerLoaded(file) ==
  /\ pc = "load_scaler"
  /\ scaler' = file
  /\ pc' = "load_labels"
  /\ UNCHANGED <<model, labels, btnDisabled, asking, handlers, buffer,
                 lastPredTime, now, inflight, nextId, tensors, logs, predLabel,
                 events, lastEv, pushes, uncaught, starts, notices, emitted,
                 lastEnd>>

LabelsLoaded(file) ==
  /\ pc = "load_labels"
  /\ labels' = file
  /\ logs' = MSG_ready
  /\ pc' = "run"
  /\ buffer' = <<>>
  /\ lastPredTime' = InitialLastPredTime
  /\ UNCHANGED <<model, scaler, btnDisabled, asking, handlers, now, inflight,
                 nextId, tensors, predLabel, events, lastEv, pushes, uncaught,
                 starts, notices, emitted, lastEnd>>

\* any of the three awaits rejects: the catch of loadAssets (main.js:38-41)
AssetLoadFails ==
  /\ pc \in {"load_model", "load_scaler", "load_labels"}
  /\ logs' = MSG_loadFailed
  /\ pc' = "run"
  /\ buffer' = <<>>
  /\ lastPredTime' = InitialLastPredTime
  /\ UNCHANGED <<model, scaler, labels, btnDisabled, asking, handlers, now,
                 inflight, nextId, tensors, predLabel, events, lastEv, pushes,
                 uncaught, starts, notices, emitted, lastEnd>>

\* ------------------------------------------------------------ start button
\* click handler (main.js:17-26) running startMotion (main.js:161-186) up to
\* its first suspension.  needsPermission: DeviceMotionEvent.requestPermission
\* is a function on this platform.
Click(needsPermission) ==
  /\ ~btnDisabled
  /\ btnDisabled' = TRUE
  /\ refused' = "no"
  /\ alerted' = FALSE
  /\ IF needsPermission
     THEN /\ asking' = TRUE
          /\ UNCHANGED <<handlers, logs>>
     ELSE /\ handlers' = handlers + 1
          /\ logs' = MSG_capturing
          /\ UNCHANGED asking
  /\ UNCHANGED <<pc, model, scaler, labels, buffer, lastPredTime, now,
                 inflight, nextId, tensors, predLabel, events, lastEv, pushes,
                 uncaught, starts, notices, emitted, lastEnd>>

\* requestPermission() resolved with 'granted' (main.js:165-166, 179-185)
PermissionGranted ==
  /\ asking
  /\ asking' = FALSE
  /\ handlers' = handlers + 1
  /\ logs' = MSG_capturing
  /\ UNCHANGED <<pc, model, scaler, labels, btnDisabled, buffer, lastPredTime,
                 now, inflight, nextId, tensors, predLabel, events, lastEv,
                 pushes, uncaught, starts, notices, emitted, lastEnd, refused,
                 alerted>>

\* PermissionDenied as the second block has it (main.js:325-328): alert and
\* return, the button stays disabled
PermissionDenied_noEnable ==
  /\ asking
  /\ asking' = FALSE
  /\ refused' = "denied"
  /\ alerted' = TRUE
  /\ UNCHANGED <<pc, model, scaler, labels, btnDisabled, handlers, buffer,
                 lastPredTime, now, inflight, nextId, tensors, logs, predLabel,
                 events, lastEv, pushes, uncaught, starts, notices, emitted,
                 lastEnd>>

\* requestPermission() resolved with an answer other than 'granted'
\* (main.js:166-170)
PermissionDenied ==
  /\ asking
  /\ asking' = FALSE
  /\ refused' = "denied"
  /\ alerted' = TRUE
  /\ btnDisabled' = FALSE
  /\ UNCHANGED <<pc, model, scaler, labels, handlers, buffer, lastPredTime,
                 now, inflight, nextId, tensors, logs, predLabel, events,
                 lastEv, pushes, uncaught, starts, notices, emitted,
                 lastEnd>>

\* requestPermission() rejected (main.js:171-175)
PermissionRejects ==
  /\ asking
  /\ asking' = FALSE
  /\ refused' = "error"
  /\ btnDisabled' = FALSE
  /\ UNCHANGED <<pc, model, scaler, labels, handlers, buffer, lastPredTime,
                 now, inflight, nextId, tensors, logs, predLabel, events,
                 lastEv, pushes, uncaught, starts, notices, emitted,
                 lastEnd, alerted>>

\* ------------------------------------------------------------------- clock
Tick(d) ==
  /\ now + d <= StartTime + Horizon
  /\ now' = now + d
  /\ UNCHANGED <<pc, model, scaler, labels, btnDisabled, asking, handlers,
                 buffer, lastPredTime, inflight, nextId, tensors, logs,
                 predLabel, events, lastEv, pushes, uncaught, starts, notices,
                 emitted, lastEnd>>

\* ------------------------------------------------------------ sample path
\* `a.x || 0` (main.js:182)
OrZero(ev, f) == IF f \in ev.missing THEN 0 ELSE ev[f]

\* the object passed to processSample (main.js:182)
SampleOf(ev) ==
  [x |-> OrZero(ev, "x"), y |-> OrZero(ev, "y"), z |-> OrZero(ev, "z")]

\* PushShift with pop() for shift(): the overflow removes the newest sample
PushShift_pop(buf, sample) ==
  LET b == Append(buf, sample)
  IN  IF Len(b) > SAMPLING_TARGET THEN SubSeq(b, 1, Len(b) - 1) ELSE b

\* buffer.push(sample); if (buffer.length > SAMPLING_TARGET) buffer.shift()
\* (main.js:52-55)
PushShift(buf, sample) ==
  LET b == Append(buf, sample)
  IN  IF Len(b) > SAMPLING_TARGET THEN Tail(b) ELSE b

\* NotReadyPath without `lastPredTime = now`
NotReadyPath_noStamp ==
  /\ IF now - lastPredTime > NoticeIntervalMs
     THEN /\ logs' = MSG_notReady
          /\ notices' = Append(notices, now)
     ELSE UNCHANGED <<logs, notices>>
  /\ UNCHANGED <<lastPredTime, inflight, nextId, tensors, starts, emitted,
                 lastEnd>>

\* the asset guard of doPredictFromBuffer (main.js:104-111)
NotReadyPath ==
  /\ IF now - lastPredTime > NoticeIntervalMs
     THEN /\ logs' = MSG_notReady
          /\ lastPredTime' = now
          /\ notices' = Append(notices, now)
     ELSE UNCHANGED <<logs, lastPredTime, notices>>
  /\ UNCHANGED <<inflight, nextId, tensors, starts, emitted, lastEnd>>

\* RateLimited never holding: no rate limit
RateLimited_off == FALSE

\* RateLimited with <= for <
RateLimited_inclusive == now - lastPredTime <= RateLimitMs

\* `if (now - lastPredTime < 800) return` (main.js:115)
RateLimited == now - lastPredTime < RateLimitMs

\* doPredictFromBuffer from the rate limit to its suspension at `await
\* out.data()` (main.js:114-124); buf is the window after the push.
\* predictThrows: model.predict(input) throws, which the catch reports
\* (main.js:146-149).
PredictPath(buf, predictThrows) ==
  IF RateLimited
  THEN UNCHANGED <<lastPredTime, inflight, nextId, tensors, logs, starts,
                   notices, emitted, lastEnd>>
  ELSE LET id == nextId + 1
           feats == computeFeatures(buf)
           scaled == standardize(feats)
       IN  /\ lastPredTime' = now
           /\ starts' = Append(starts, now)
           /\ nextId' = id
           /\ UNCHANGED notices
           /\ IF predictThrows
              THEN /\ tensors' = tensors \cup {<<id, "input">>}
                   /\ logs' = MSG_predError
                   /\ emitted' = Append(emitted, [id |-> id, kind |-> "error"])
                   /\ lastEnd' = [id |-> id, outcome |-> "throws",
                                  probs |-> <<>>, input |-> scaled,
                                  win |-> buf, endN |-> pushes + 1]
                   /\ UNCHANGED inflight
              ELSE /\ tensors' = tensors \cup {<<id, "input">>, <<id, "out">>}
                   /\ inflight' = inflight \cup
                        {[id |-> id, t |-> now, input |-> scaled, win |-> buf]}
                   /\ UNCHANGED <<logs, emitted, lastEnd>>

\* doPredictFromBuffer without the guard on the assets
doPredictFromBuffer_noGuard(buf, predictThrows) ==
  PredictPath(buf, predictThrows)

\* doPredictFromBuffer up to its first suspension (main.js:102-124)
doPredictFromBuffer(buf, predictThrows) ==
  IF ~AllLoaded THEN NotReadyPath ELSE PredictPath(buf, predictThrows)

\* processSample (main.js:50-60)
processSample(sample, predictThrows) ==
  LET buf == PushShift(buffer, [s |-> sample, n |-> pushes + 1])
  IN  /\ buffer' = buf
      /\ pushes' = pushes + 1
      /\ UNCHANGED uncaught
      /\ IF Len(buf) = SAMPLING_TARGET
         THEN doPredictFromBuffer(buf, predictThrows)
         ELSE UNCHANGED <<lastPredTime, inflight, nextId, tensors, logs,
                          starts, notices, emitted, lastEnd>>

\* the devicemotion handler (main.js:179-183).  Before the top-level script
\* has passed `let buffer = []` (main.js:48) the binding is uninitialised and
\* buffer.push throws a ReferenceError out of the handler.
SampleEvent(ev, predictThrows) ==
  /\ handlers = 1
  /\ events < MaxEvents
  /\ events' = events + 1
  /\ lastEv' = ev
  /\ IF ~ev.accel
     THEN UNCHANGED <<buffer, pushes, uncaught, lastPredTime, inflight, nextId,
                      tensors, logs, starts, notices, emitted, lastEnd>>
     ELSE IF pc # "run"
     THEN /\ uncaught' = uncaught + 1
          /\ UNCHANGED <<buffer, pushes, lastPredTime, inflight, nextId,
                         tensors, logs, starts, notices, emitted, lastEnd>>
     ELSE processSample(SampleOf(ev), predictThrows)
  /\ UNCHANGED <<pc, model, scaler, labels, btnDisabled, asking, handlers, now,
                 predLabel>>

\* ------------------------------------------------- end of an inference
\* updateUI (main.js:152-158)
updateUI(label, five, confidence) ==
  predLabel' = [label |-> label, five |-> five, confidence |-> confidence]

\* InputOf reading the features from the window as it is when the call ends
InputOf_live(inf) == standardize(computeFeatures(buffer))

\* The tensor the classifier call works on: `input` was built from the
\* features before the suspension (main.js:120-123), so it holds the values
\* computed then, whatever the window has become.
InputOf(inf) == inf.input

\* out.data() resolves with probs: the rest of the try block
\* (main.js:124-145)
DataResolves(inf, probs) ==
  /\ inf \in inflight
  /\ inflight' = inflight \ {inf}
  /\ tensors' = tensors \ {<<inf.id, "input">>, <<inf.id, "out">>}
  /\ LET maxIdx == ArgMax(probs)
         label == LabelAt(maxIdx)
         five == mapToFive(label)
     IN  updateUI(label, five, Confidence(probs, maxIdx))
  /\ lastEnd' = [id |-> inf.id,
                 outcome |-> IF probs = <<>> THEN "malformed" ELSE "ok",
                 probs |-> probs, input |-> InputOf(inf), win |-> inf.win,
                 endN |-> pushes]
  /\ emitted' = Append(emitted, [id |-> inf.id, kind |-> "result"])
  /\ UNCHANGED <<pc, model, scaler, labels, btnDisabled, asking, handlers,
                 buffer, lastPredTime, now, nextId, logs, events, lastEv,
                 pushes, uncaught, starts, notices>>

\* DataRejects with no catch: the rejection ends the call and reports nothing
DataRejects_uncaught(inf) ==
  /\ inf \in inflight
  /\ inflight' = inflight \ {inf}
  /\ lastEnd' = [id |-> inf.id, outcome |-> "rejects", probs |-> <<>>,
                 input |-> InputOf(inf), win |-> inf.win, endN |-> pushes]
  /\ UNCHANGED <<pc, model, scaler, labels, btnDisabled, asking, handlers,
                 buffer, lastPredTime, now, nextId, tensors, predLabel, events,
                 lastEv, pushes, uncaught, starts, notices, logs, emitted>>

\* out.data() rejects: the catch (main.js:146-149)
DataRejects(inf) ==
  /\ inf \in inflight
  /\ inflight' = inflight \ {inf}
  /\ logs' = MSG_predError
  /\ emitted' = Append(emitted, [id |-> inf.id, kind |-> "error"])
  /\ lastEnd' = [id |-> inf.id, outcome |-> "rejects", probs |-> <<>>,
                 input |-> InputOf(inf), win |-> inf.win, endN |-> pushes]
  /\ UNCHANGED <<pc, model, scaler, labels, btnDisabled, asking, handlers,
                 buffer, lastPredTime, now, nextId, tensors, predLabel, events,
                 lastEv, pushes, uncaught, starts, notices>>

\* -------------------------------------------------------------------- Next
Next ==
  \/ ModelLoaded /\ UNCHANGED <<permVars, block2Vars>>
  \/ \E file \in ScalerFiles :
       ScalerLoaded(file) /\ UNCHANGED <<permVars, block2Vars>>
  \/ \E file \in RunLabelFiles :
       LabelsLoaded(file) /\ UNCHANGED <<permVars, block2Vars>>
  \/ AssetLoadFails /\ UNCHANGED <<permVars, block2Vars>>
  \/ \E needsPermission \in BOOLEAN :
       Click(needsPermission) /\ UNCHANGED block2Vars
  \/ PermissionGranted /\ UNCHANGED block2Vars
  \/ PermissionDenied /\ UNCHANGED block2Vars
  \/ PermissionRejects /\ UNCHANGED block2Vars
  \/ \E d \in Deltas : Tick(d) /\ UNCHANGED <<permVars, block2Vars>>
  \/ \E ev \in Events, predictThrows \in BOOLEAN :
       SampleEvent(ev, predictThrows) /\ UNCHANGED <<permVars, block2Vars>>
  \/ \E inf \in inflight, probs \in RunDists :
       DataResolves(inf, probs) /\ UNCHANGED <<permVars, block2Vars>>
  \/ \E inf \in inflight :
       DataRejects(inf) /\ UNCHANGED <<permVars, block2Vars>>

Spec == Init /\ [][Next]_vars

FullEvent == CHOOSE ev \in Events : ev.accel /\ ev.missing = {}
GoodScaler == CHOOSE file \in ScalerFiles : file.mean # <<>>

\* ------------------------------------------------------------ second block
\* its loadAssets (main.js:207-217); after it the script registers its own
\* click handler (main.js:343-346).  A rejected await ends the script: the
\* handler is never registered.
Model2Loaded ==
  /\ pc2 = "load_model"
  /\ pc2' = "load_rest"
  /\ logs' = MSG_modelLoaded
  /\ UNCHANGED <<asking2, handlers2, buffer2>>

Rest2Loaded ==
  /\ pc2 = "load_rest"
  /\ pc2' = "ready"
  /\ logs' = MSG_ready2
  /\ UNCHANGED <<asking2, handlers2, buffer2>>

Load2Fails ==
  /\ pc2 \in {"load_model", "load_rest"}
  /\ pc2' = "dead"
  /\ UNCHANGED <<asking2, handlers2, buffer2, logs>>

\* its click handler (main.js:343-346) running its startMotion
\* (main.js:320-340) up to the first suspension; it writes the same values to
\* startBtn.disabled and logs as the first block's handler does
Click2(needsPermission) ==
  IF pc2 = "ready"
  THEN /\ asking2 + handlers2 < MaxListeners
       /\ IF needsPermission
          THEN asking2' = asking2 + 1 /\ UNCHANGED handlers2
          ELSE handlers2' = handlers2 + 1 /\ UNCHANGED asking2
       /\ UNCHANGED <<pc2, buffer2>>
  ELSE UNCHANGED block2Vars

\* one click on startBtn: both click handlers run, in registration order
PageClick(needsPermission) == Click(needsPermission) /\ Click2(needsPermission)

\* its requestPermission() resolved with 'granted' (main.js:324-325, 333-339)
Permission2Granted ==
  /\ asking2 > 0
  /\ asking2' = asking2 - 1
  /\ handlers2' = handlers2 + 1
  /\ logs' = MSG_capturing
  /\ UNCHANGED <<pc2, buffer2, alerted>>

\* ... with another answer (main.js:325-328); the button is left alone
Permission2Denied ==
  /\ asking2 > 0
  /\ asking2' = asking2 - 1
  /\ alerted' = TRUE
  /\ UNCHANGED <<pc2, handlers2, buffer2, logs>>

\* ... rejected: the catch only warns and startMotion goes on to subscribe
\* (main.js:329-339)
Permission2Rejects ==
  /\ asking2 > 0
  /\ asking2' = asking2 - 1
  /\ handlers2' = handlers2 + 1
  /\ logs' = MSG_capturing
  /\ UNCHANGED <<pc2, buffer2, alerted>>

\* what of the first block's state a step of the second block leaves alone
Block1Same ==
  UNCHANGED <<pc, model, scaler, labels, btnDisabled, asking, handlers, buffer,
              lastPredTime, now, inflight, nextId, tensors, predLabel, events,
              lastEv, pushes, uncaught, starts, notices, emitted, lastEnd,
              refused>>

\* each of its k listeners (main.js:333-338) passes the event to its
\* processSample (main.js:223-228)
RECURSIVE Push2(_, _, _)
Push2(buf, elem, k) ==
  IF k = 0 THEN buf ELSE Push2(PushShift(buf, elem), elem, k - 1)

Deliver2(ev) ==
  buffer2' = IF ev.accel
             THEN Push2(buffer2, [s |-> SampleOf(ev), n |-> events + 1],
                        handlers2)
             ELSE buffer2

\* one devicemotion event on the page: every registered listener gets it
PageEvent(ev, predictThrows) ==
  /\ \/ SampleEvent(ev, predictThrows)
     \/ /\ handlers = 0
        /\ handlers2 > 0
        /\ events < MaxEvents
        /\ events' = events + 1
        /\ lastEv' = ev
        /\ UNCHANGED <<pc, model, scaler, labels, btnDisabled, asking,
                       handlers, buffer, lastPredTime, now, inflight, nextId,
                       tensors, logs, predLabel, pushes, uncaught, starts,
                       notices, emitted, lastEnd>>
  /\ Deliver2(ev)
  /\ UNCHANGED <<permVars, pc2, asking2, handlers2>>

RunLabels == CHOOSE file \in RunLabelFiles : TRUE

NextPage ==
  \/ ModelLoaded /\ UNCHANGED <<permVars, block2Vars>>
  \/ ScalerLoaded(GoodScaler) /\ UNCHANGED <<permVars, block2Vars>>
  \/ LabelsLoaded(RunLabels) /\ UNCHANGED <<permVars, block2Vars>>
  \/ AssetLoadFails /\ UNCHANGED <<permVars, block2Vars>>
  \/ Model2Loaded /\ Block1Same /\ UNCHANGED alerted
  \/ Rest2Loaded /\ Block1Same /\ UNCHANGED alerted
  \/ Load2Fails /\ Block1Same /\ UNCHANGED alerted
  \/ \E needsPermission \in BOOLEAN : PageClick(needsPermission)
  \/ PermissionGranted /\ UNCHANGED block2Vars
  \/ PermissionDenied /\ UNCHANGED block2Vars
  \/ PermissionRejects /\ UNCHANGED block2Vars
  \/ Permission2Granted /\ Block1Same
  \/ Permission2Denied /\ Block1Same
  \/ Permission2Rejects /\ Block1Same
  \/ \E ev \in Events : PageEvent(ev, FALSE)
  \/ \E inf \in inflight, probs \in RunDists :
       DataResolves(inf, probs) /\ UNCHANGED <<permVars, block2Vars>>

SpecPage == Init /\ [][NextPage]_vars

\* The normalizer (main.js:89-99) for stored scale values around the guard:
\* scaler files whose first two scale entries are zero, positive below 1e-8,
\* exactly 1e-8, negative, or ordinary.
ScaleValues == {0, 1, 10, -1000000000, 1000000000}
ScaleFiles ==
  { [isNull |-> FALSE, mean |-> GoodScaler.mean,
     scale |-> [i \in 1..7 |-> IF i = 1 THEN s1
                               ELSE IF i = 2 THEN s2 ELSE 1000000000]] :
      s1 \in ScaleValues, s2 \in ScaleValues }

NextScale ==
  \/ ModelLoaded /\ UNCHANGED <<permVars, block2Vars>>
  \/ \E file \in ScaleFiles :
       ScalerLoaded(file) /\ UNCHANGED <<permVars, block2Vars>>
  \/ LabelsLoaded(RunLabels) /\ UNCHANGED <<permVars, block2Vars>>
  \/ Click(FALSE) /\ UNCHANGED block2Vars
  \/ \E d \in Deltas : Tick(d) /\ UNCHANGED <<permVars, block2Vars>>
  \/ SampleEvent(FullEvent, FALSE) /\ UNCHANGED <<permVars, block2Vars>>
  \/ \E inf \in inflight, probs \in RunDists :
       DataResolves(inf, probs) /\ UNCHANGED <<permVars, block2Vars>>

SpecScale == Init /\ [][NextScale]_vars

\* The pipeline with well-formed assets, where every pending out.data()
\* (main.js:124) eventually resolves or rejects.
Settles(id) ==
  \E inf \in inflight :
    /\ inf.id = id
    /\ \/ \E probs \in RunDists : DataResolves(inf, probs)
       \/ DataRejects(inf)
    /\ UNCHANGED <<permVars, block2Vars>>

NextLive ==
  \/ ModelLoaded /\ UNCHANGED <<permVars, block2Vars>>
  \/ ScalerLoaded(GoodScaler) /\ UNCHANGED <<permVars, block2Vars>>
  \/ LabelsLoaded(RunLabels) /\ UNCHANGED <<permVars, block2Vars>>
  \/ Click(FALSE) /\ UNCHANGED block2Vars
  \/ \E d \in Deltas : Tick(d) /\ UNCHANGED <<permVars, block2Vars>>
  \/ \E predictThrows \in BOOLEAN :
       SampleEvent(FullEvent, predictThrows)
         /\ UNCHANGED <<permVars, block2Vars>>
  \/ \E id \in 1..MaxEvents : Settles(id)

SpecLive ==
  Init /\ [][NextLive]_vars /\ \A id \in 1..MaxEvents : WF_vars(Settles(id))

\* The decision made from a classifier output (main.js:128-145), for every
\* labels file and every distribution: one capture, one inference.

NextDecide ==
  \/ ModelLoaded /\ UNCHANGED <<permVars, block2Vars>>
  \/ ScalerLoaded(GoodScaler) /\ UNCHANGED <<permVars, block2Vars>>
  \/ \E file \in LabelFiles :
       LabelsLoaded(file) /\ UNCHANGED <<permVars, block2Vars>>
  \/ Click(FALSE) /\ UNCHANGED block2Vars
  \/ SampleEvent(FullEvent, FALSE) /\ UNCHANGED <<permVars, block2Vars>>
  \/ \E inf \in inflight, probs \in Dists :
       DataResolves(inf, probs) /\ UNCHANGED <<permVars, block2Vars>>

SpecDecide == Init /\ [][NextDecide]_vars

\* ================================================================= claims
Failed == {"throws", "rejects", "malformed"}

\* the window is what the pushes alone produce: the last pushes, in order
WindowIsLastPushes ==
  /\ Len(buffer) = IF pushes < SAMPLING_TARGET THEN pushes ELSE SAMPLING_TARGET
  /\ \A i \in 1..Len(buffer) : buffer[i].n = pushes - Len(buffer) + i

\* C1: the window never holds more than SAMPLING_TARGET samples, and once
\* SAMPLING_TARGET samples have been pushed it holds exactly the
\* SAMPLING_TARGET most recently pushed ones, in arrival order.
C1_WindowBounded ==
  /\ Len(buffer) <= SAMPLING_TARGET
  /\ WindowIsLastPushes

C1_Witness == pushes > SAMPLING_TARGET /\ Len(buffer) = SAMPLING_TARGET

\* C2: with the assets loaded, a sample that leaves the window full starts an
\* inference iff now - lastPredTime >= 800, a start sets lastPredTime to now,
\* and any two starts are at least 800 ms apart.
C2_Step ==
  (AllLoaded /\ pushes' = pushes + 1 /\ Len(buffer') = SAMPLING_TARGET) =>
    /\ (nextId' = nextId + 1) <=> (now - lastPredTime >= RateLimitMs)
    /\ nextId' \in {nextId, nextId + 1}
    /\ nextId' # nextId => lastPredTime' = now /\ starts' = Append(starts, now)
    /\ nextId' = nextId => lastPredTime' = lastPredTime /\ starts' = starts

C2_Apart ==
  \A i, j \in 1..Len(starts) : i < j => starts[j] - starts[i] >= RateLimitMs

C2_RateLimit == [][C2_Step]_vars /\ []C2_Apart

C2_Witness ==
  /\ Len(starts) = 2
  /\ starts[2] - starts[1] = RateLimitMs
  /\ lastPredTime = starts[2]

\* C3: no inference starts while an earlier one has not finished.
C3_NoOverlap == [][nextId' # nextId => inflight = {}]_vars

\* C4: once capture is started and while the assets are not all loaded, an
\* arriving sample is appended to the window, raises no error and makes no
\* classifier call.
C4_CaptureNotBlocked ==
  [][(handlers = 1 /\ ~AllLoaded /\ events' = events + 1 /\ lastEv'.accel) =>
       /\ pushes' = pushes + 1
       /\ buffer' # <<>>
       /\ buffer'[Len(buffer')].s = SampleOf(lastEv')
       /\ uncaught' = uncaught
       /\ nextId' = nextId]_vars

\* C5: the "not ready" notice is written at most once in any 2-second
\* interval.
C5_NoticeThrottled ==
  \A i, j \in 1..Len(notices) :
    i < j => notices[j] - notices[i] >= NoticeIntervalMs

C5_Witness ==
  /\ ~AllLoaded
  /\ Len(notices) = 1
  /\ pushes > SAMPLING_TARGET
  /\ now - notices[1] < NoticeIntervalMs

\* C6: an inference that failed (the call threw, its result was rejected, or
\* the output was malformed) wrote an error status and no prediction, and left
\* the window as the pushes made it.
C6_FailureReported ==
  lastEnd.outcome \in Failed =>
    /\ emitted # <<>>
    /\ emitted[Len(emitted)] = [id |-> lastEnd.id, kind |-> "error"]
    /\ WindowIsLastPushes

\* C7: every live tensor belongs to an inference that has not ended.
C7_TensorsReleased ==
  \A t \in tensors : \E inf \in inflight : inf.id = t[1]

\* C8: the input of an inference is the standardized feature vector of the
\* window as it was when the inference started, also when samples were pushed
\* while the call was suspended.
C8_SnapshotFeatures ==
  /\ \A inf \in inflight :
       InputOf(inf) = standardize(computeFeatures(inf.win))
  /\ lastEnd.outcome # "none" =>
       lastEnd.input = standardize(computeFeatures(lastEnd.win))

C8_Witness ==
  /\ lastEnd.outcome = "ok"
  /\ lastEnd.endN > lastEnd.win[Len(lastEnd.win)].n
  /\ lastEnd.input # standardize(computeFeatures(buffer))

Contains(lab, word) == includes(toLowerCase(lab), word)
Equals(lab, word) == toLowerCase(lab) = word

\* the rule list as claimed: rule 4 matches by containment
ClaimedLevel(lab) ==
  IF Contains(lab, STR_sit) \/ Contains(lab, STR_stand) THEN 1
  ELSE IF Equals(lab, STR_walking) THEN 3
  ELSE IF Equals(lab, STR_upstairs) \/ Equals(lab, STR_downstairs) THEN 3
  ELSE IF Contains(lab, STR_jogging) \/ Contains(lab, STR_running) THEN 5
  ELSE 3

\* the rule list with rule 4 matching by equality
AmendedLevel(lab) ==
  LET rules == << [hit |-> Contains(lab, STR_sit), level |-> 1],
                  [hit |-> Contains(lab, STR_stand), level |-> 1],
                  [hit |-> Equals(lab, STR_walking), level |-> 3],
                  [hit |-> Equals(lab, STR_upstairs), level |-> 3],
                  [hit |-> Equals(lab, STR_downstairs), level |-> 3],
                  [hit |-> Equals(lab, STR_jogging), level |-> 5],
                  [hit |-> Equals(lab, STR_running), level |-> 5],
                  [hit |-> TRUE, level |-> 3] >>
      first == CHOOSE k \in 1..Len(rules) :
                 rules[k].hit /\ \A j \in 1..(k - 1) : ~rules[j].hit
  IN  rules[first].level

\* C9 as claimed: the level shown is the one the rule list gives with
\* "contains jogging or running" -> 5.
C9_ClaimedRules ==
  lastEnd.outcome = "ok" => predLabel.five = ClaimedLevel(predLabel.label)

\* C9: the level shown is the one the ordered rule list gives, first match
\* winning, case-insensitively: contains "sit" or "stand" -> 1; equals
\* "walking", "upstairs" or "downstairs" -> 3; equals "jogging" or "running"
\* -> 5; otherwise 3.
C9_AmendedRules ==
  lastEnd.outcome = "ok" => predLabel.five = AmendedLevel(predLabel.label)

C9_Witness ==
  /\ lastEnd.outcome = "ok"
  /\ Contains(predLabel.label, STR_jogging)
  /\ ~Equals(predLabel.label, STR_jogging)
  /\ predLabel.five = 3

MaxOf(probs) ==
  CHOOSE v \in {probs[i] : i \in 1..Len(probs)} :
    \A i \in 1..Len(probs) : probs[i] <= v

LowestMaxIndex(probs) ==
  CHOOSE i \in 1..Len(probs) :
    probs[i] = MaxOf(probs) /\ \A j \in 1..(i - 1) : probs[j] # MaxOf(probs)

\* C10: for a non-empty distribution the label and confidence shown are those
\* of the lowest index whose value is the maximum.
C10_ArgMaxFirst ==
  lastEnd.outcome = "ok" =>
    /\ ArgMax(lastEnd.probs) = LowestMaxIndex(lastEnd.probs)
    /\ predLabel.label = LabelAt(LowestMaxIndex(lastEnd.probs))
    /\ predLabel.confidence = MaxOf(lastEnd.probs)

C10_Witness ==
  /\ lastEnd.outcome = "ok"
  /\ lastEnd.probs = <<5, 5, 1>>
  /\ predLabel.label = labels.arr[1]
  /\ labels.arr[1] # labels.arr[2]

\* C11: at most one devicemotion subscription is active on the page, and no
\* event is put into a window more than once.
C11_SingleSubscription ==
  /\ handlers + handlers2 <= 1
  /\ \A i, j \in 1..Len(buffer2) : i # j => buffer2[i].n # buffer2[j].n

\* C12: after a denied permission request nothing is subscribed and no sample
\* has reached the window, the denial has been reported, and the start button
\* is enabled again.
C12_DenialInert ==
  refused = "denied" =>
    /\ handlers = 0
    /\ pushes = 0
    /\ buffer = <<>>
    /\ alerted
    /\ ~btnDisabled
    /\ ~asking

C12_Witness == refused = "denied" /\ AllLoaded /\ events = 0

\* C13: once loading has ended with an asset missing, or with a scaler that
\* lacks the mean or the scale array, no inference is ever started and no
\* prediction is ever shown.
C13_FailedAssetsInert ==
  ( /\ pc = "run"
    /\ \/ ~AllLoaded
       \/ Len(scaler.mean) # 7
       \/ Len(scaler.scale) # 7 )
  => /\ nextId = 0
     /\ inflight = {}
     /\ emitted = <<>>
     /\ predLabel = NoPred

\* C14: every devicemotion event delivered to the running pipeline appends
\* exactly one sample to the window, the event's x, y, z with 0 for each
\* absent field.
C14_Step ==
  (pc = "run" /\ events' = events + 1) =>
    /\ pushes' = pushes + 1
    /\ buffer' # <<>>
    /\ buffer'[Len(buffer')].s = SampleOf(lastEv')

C14_EveryEventStored == [][C14_Step]_vars

\* C15: with all assets loaded, no inference has started and nothing has been
\* emitted while fewer than SAMPLING_TARGET samples have been pushed; at the
\* SAMPLING_TARGET-th push exactly one inference has started, whatever the
\* initial lastPredTime, and when it has succeeded exactly one result has
\* been emitted.
C15_FirstWindow ==
  AllLoaded =>
    /\ pushes < SAMPLING_TARGET =>
         /\ nextId = 0
         /\ emitted = <<>>
         /\ predLabel = NoPred
    /\ pushes = SAMPLING_TARGET =>
         /\ nextId = 1
         /\ Len(starts) = 1
         /\ Len(emitted) <= 1
         /\ inflight = {} => emitted # <<>> /\ emitted[1].id = 1
         /\ lastEnd.outcome = "ok" =>
              emitted = <<[id |-> 1, kind |-> "result"]>>

C15_Witness ==
  /\ AllLoaded
  /\ pushes = SAMPLING_TARGET
  /\ lastEnd.outcome = "ok"
  /\ emitted = <<[id |-> 1, kind |-> "result"]>>

\* C16: the divisor standardize uses for feature i is the larger of the
\* stored scale[i] and 1e-8, so it is never below 1e-8.
C16_DivisorGuarded ==
  \A inf \in inflight :
    \A i \in 1..Len(inf.input) :
      i \in 1..Len(scaler.scale) =>
        /\ inf.input[i].den >= EPSILON
        /\ inf.input[i].den =
             IF scaler.scale[i] > EPSILON THEN scaler.scale[i] ELSE EPSILON

\* C17: an inference is started only by a step that leaves the window with
\* exactly SAMPLING_TARGET samples while model, scaler and labels are all
\* loaded, and every classifier call in flight was given such a window.
C17_Step ==
  nextId' # nextId =>
    /\ Len(buffer') = SAMPLING_TARGET
    /\ model /\ ~scaler.isNull /\ ~labels.isNull
    /\ pushes' = pushes + 1

C17_Called ==
  /\ \A inf \in inflight : Len(inf.win) = SAMPLING_TARGET
  /\ nextId > 0 => model /\ ~scaler.isNull /\ ~labels.isNull
  /\ lastEnd.outcome # "none" => Len(lastEnd.win) = SAMPLING_TARGET

C17_OnlyWhenReady == [][C17_Step]_vars /\ []C17_Called

C17_Witness ==
  /\ nextId = 1
  /\ inflight # {}
  /\ Len(buffer) = SAMPLING_TARGET
  /\ pushes = SAMPLING_TARGET

\* C18: with the assets loaded and the window full, a sample arriving less
\* than 800 ms after the last inference start evicts the oldest sample and
\* appends the new one, and changes nothing else: lastPredTime, the
\* classifier calls, the status line and the displayed prediction stay.
C18_Step ==
  ( /\ model /\ ~scaler.isNull /\ ~labels.isNull
    /\ Len(buffer) = SAMPLING_TARGET
    /\ starts # <<>>
    /\ now - starts[Len(starts)] < RateLimitMs
    /\ pushes' = pushes + 1 )
  => /\ buffer' = Append(Tail(buffer),
                         [s |-> SampleOf(lastEv'), n |-> pushes + 1])
     /\ UNCHANGED <<lastPredTime, nextId, inflight, tensors, starts, logs,
                    predLabel, emitted, lastEnd, notices, uncaught>>

C18_OnlyWindowChanges == [][C18_Step]_vars

C18_Witness ==
  /\ AllLoaded
  /\ Len(starts) = 1
  /\ pushes = SAMPLING_TARGET + 1
  /\ now - starts[1] < RateLimitMs
  /\ buffer[1].n = 2

\* C19: every started inference ends, having written exactly one prediction
\* or one error status; and after a failed inference, with none started
\* since, a sample that leaves the window full at least 800 ms after the
\* failed one's start starts a new inference.
Ended(id) == \E i \in 1..Len(emitted) : emitted[i].id = id

C19_Ends == \A id \in 1..MaxEvents : (nextId >= id) ~> Ended(id)

C19_Once ==
  /\ \A i, j \in 1..Len(emitted) : i # j => emitted[i].id # emitted[j].id
  /\ \A id \in 1..nextId :
       Ended(id) <=> ~(\E inf \in inflight : inf.id = id)

C19_Step ==
  ( /\ lastEnd.outcome \in Failed
    /\ lastEnd.id = nextId
    /\ pushes' = pushes + 1
    /\ Len(buffer') = SAMPLING_TARGET
    /\ now - starts[lastEnd.id] >= RateLimitMs )
  => /\ nextId' = nextId + 1
     /\ starts' = Append(starts, now)

C19_EndsAndRecovers == C19_Ends /\ []C19_Once /\ [][C19_Step]_vars

C19_Witness ==
  /\ lastEnd.id = 1
  /\ lastEnd.outcome \in Failed
  /\ nextId = 2
  /\ \E inf \in inflight :
       inf.id = 2 /\ inf.win[Len(inf.win)].n > lastEnd.endN

\* C20: predictions are shown in the order their inferences were started: a
\* result of an earlier inference is never emitted after one of a later
\* inference.
C20_ResultsInStartOrder ==
  \A i, j \in 1..Len(emitted) :
    (i < j /\ emitted[i].kind = "result" /\ emitted[j].kind = "result")
      => emitted[i].id < emitted[j].id

====
